---- MODULE Spec2Model ----
(***************************************************************************)
(* Model of src/main.py: the MediaGenerator batch pipeline (run, run_trakt, *)
(* generate_api_json), generate_image with its normalisation, aspect-fill  *)
(* crop and title block layout.                                            *)
(*                                                                         *)
(* Four specifications share the module:                                   *)
(*   Spec        the __main__ target sequence and its batches              *)
(*   SpecImage   one call of generate_image on an arbitrary detail record  *)
(*   SpecLayout  the title block / info line layout of generate_image      *)
(*   SpecCrop    the aspect-fill crop of generate_image                    *)
(***************************************************************************)
EXTENDS Integers, Sequences, FiniteSets

VARIABLES
    \* ---- batch pipeline (Spec) ----
    pc,          \* "idle": between two targets of __main__; "items": in the item loop
    tgt,         \* index of the next target of __main__
    remaining,   \* selected items of the running batch not yet visited
    nSelected,   \* len(selected_items) of the running / last batch
    attempted,   \* selected items of the running / last batch the loop has visited
    files,       \* the files in BACKGROUND_DIR, as [m_type, id, ext]
    manifest,    \* the records of api.json
    written,     \* files saved by the running / last batch
    last,        \* what happened to the item visited last
    lastBatch,   \* how the last batch ended
    nFailed,     \* batches so far whose discovery query raised
    \* ---- one generate_image call (SpecImage) ----
    imgIn,       \* the item, media type and detail record
    imgOut,      \* the result of generate_image
    \* ---- title block layout (SpecLayout) ----
    lpc,         \* position inside generate_image lines 150-193
    title,       \* kind of title: "null", "empty", "latin", "cjk"
    logo,        \* the wordmark: [avail, ok, w, h]
    target_font_size,
    line_data,   \* the (w, h) of the wrapped lines measured last
    current_y,
    drawn,       \* font sizes at which the title was drawn, in order
    tried,       \* font sizes measured so far, in order
    rejected,    \* font sizes measured and found not to fit
    logo_h,      \* height of the scaled wordmark composited, -1 if none
    info_y,      \* y of the info line, -1 while not drawn
    \* ---- aspect-fill crop (SpecCrop) ----
    cpc,         \* "src": image decoded; "done": cropped and resized; "raised"
    image,       \* <<width, height>> of the decoded backdrop
    box,         \* the crop box <<left, top, right, bottom>>
    axis,        \* the branch taken: "x" (wider than target) or "y"
    canvas       \* <<width, height>> after crop and resize

batchVars  == <<pc, tgt, remaining, nSelected, attempted, files, manifest,
                written, last, lastBatch, nFailed>>
imageVars  == <<imgIn, imgOut>>
layoutVars == <<lpc, title, logo, target_font_size, line_data, current_y,
                drawn, tried, rejected, logo_h, info_y>>
cropVars   == <<cpc, image, box, axis, canvas>>
vars       == <<batchVars, imageVars, layoutVars, cropVars>>

----------------------------------------------------------------------------
(* Bounds of the model *)

MaxId == 1
MaxItems == 2
NumRunCalls == 2
MaxLines == 2
MaxSrc == 24

(* Program constants *)

CANVAS_W == 3840
CANVAS_H == 2160
INITIAL_Y == 480
MAX_TITLE_H == 500
CLAMP_GAP == 20
LOGO_GAP == 40
LINE_GAP == 20
START_LATIN == 350
START_CJK == 250
FLOOR_SIZE == 80
SIZE_STEP == 20
INFO_ADVANCE == 110

MAX_TEXT_W == (CANVAS_W * 8) \div 10

Max(a, b) == IF a >= b THEN a ELSE b

----------------------------------------------------------------------------
(* Detail records and generate_image as a function of what it is given *)

FieldNames == {"date", "genres", "runtime", "seasons", "vote", "overview"}
FieldStates == {"absent", "null", "value"}
TitleKinds == {"null", "empty", "latin", "cjk"}

\* A detail record as far as generate_image's control flow depends on it.
\*   fetch_ok   get_details returned a decoded JSON object
\*   f          state of each optional key
\*   backdrop   'backdrop_path' is present and truthy
\*   decode_ok  the backdrop downloads and decodes
\*   logo_ok    a wordmark exists, downloads, decodes and is composited
\*   title      kind of the title string
Details ==
    [fetch_ok : BOOLEAN, f : [FieldNames -> FieldStates], backdrop : BOOLEAN,
     decode_ok : BOOLEAN, logo_ok : BOOLEAN, title : TitleKinds]

\* Detail records whose optional keys are all in the same state.
UniformDetails ==
    {[fetch_ok |-> fe, f |-> [n \in FieldNames |-> st], backdrop |-> b,
      decode_ok |-> de, logo_ok |-> lo, title |-> t] :
        fe \in BOOLEAN, st \in FieldStates, b \in BOOLEAN, de \in BOOLEAN,
        lo \in BOOLEAN, t \in TitleKinds}

\* Lines 112-117: true when building year / genres / extra / info_text raises.
\*   date:    `date_raw[:4] if date_raw else "N/A"`  never raises
\*   genres:  details.get('genres', []) is None when the key holds null
\*   runtime: details.get('runtime', 0)//60 on None (movies only)
\*   seasons: formatted into an f-string, never raises (shows only)
\*   vote:    round(None, 1)
NormalizeRaises(d, is_movie) ==
    \/ d.f["genres"] = "null"
    \/ is_movie /\ d.f["runtime"] = "null"
    \/ d.f["vote"] = "null"

\* The normalised fields, where normalisation does not raise.
Normalize(d, is_movie) ==
    [year     |-> IF d.f["date"] = "value" THEN "yyyy" ELSE "N/A",
     genres   |-> IF d.f["genres"] = "value" THEN "names" ELSE "",
     extra    |-> IF is_movie
                  THEN (IF d.f["runtime"] = "value" THEN "runtime" ELSE "0h 0m")
                  ELSE (IF d.f["seasons"] = "value" THEN "n Seasons"
                        ELSE IF d.f["seasons"] = "absent" THEN "1 Seasons"
                        ELSE "None Seasons"),
     rating   |-> IF d.f["vote"] = "value" THEN "vote" ELSE "0"]

\* Lines 164-185: the text path raises on a title that is None (iteration at
\* line 165) or that wraps to no line (max of an empty list at line 178).
TitleBlockRaises(d) == ~d.logo_ok /\ d.title \in {"null", "empty"}

\* Lines 195-196: get_font iterates over the overview; None is not iterable.
OverviewRaises(d) == d.f["overview"] = "null"

Result(o, c) == [outcome |-> o, composed |-> c]

generate_image_NoBackdropCheck(has_id, d, is_movie) ==
    IF ~has_id THEN Result("raise", FALSE)
    ELSE IF ~d.fetch_ok THEN Result("raise", FALSE)
    ELSE IF NormalizeRaises(d, is_movie) THEN Result("raise", FALSE)
    ELSE IF d.backdrop /\ ~d.decode_ok THEN Result("raise", FALSE)
    ELSE IF TitleBlockRaises(d) THEN Result("raise", TRUE)
    ELSE IF OverviewRaises(d) THEN Result("raise", TRUE)
    ELSE Result("saved", TRUE)

\* generate_image: "raise" (an exception leaves it), "return" (line 120) or
\* "saved" (line 205); composed tells whether the canvas was built (line 124 on).
generate_image(has_id, d, is_movie) ==
    IF ~has_id THEN Result("raise", FALSE)
    ELSE IF ~d.fetch_ok THEN Result("raise", FALSE)
    ELSE IF NormalizeRaises(d, is_movie) THEN Result("raise", FALSE)
    ELSE IF ~d.backdrop THEN Result("return", FALSE)
    ELSE IF ~d.decode_ok THEN Result("raise", FALSE)
    ELSE IF TitleBlockRaises(d) THEN Result("raise", TRUE)
    ELSE IF OverviewRaises(d) THEN Result("raise", TRUE)
    ELSE Result("saved", TRUE)

\* output_path of line 204: BACKGROUND_DIR/{m_type}_tmdb_{m_id}.jpg
OutputFile(is_movie, id) ==
    [m_type |-> IF is_movie THEN "movie" ELSE "tv", id |-> id, ext |-> "jpg"]

\* Lines 212-218: the record built from one file name; the name is split at
\* its last underscore into "<m_type>_tmdb" and the id.
ApiRecord(fl) ==
    [actionUrl |-> <<fl.m_type, "tmdb", ":", fl.id>>,
     imageUrl  |-> <<"BASE_URL_FOR_API", "BACKGROUND_DIR", fl>>,
     title     |-> <<fl.m_type, "tmdb", "_", fl.id>>]

\* generate_api_json: one record per .jpg of the directory listing; api.json
\* is opened with "w", so the result replaces what was there.
generate_api_json(dir) == {ApiRecord(fl) : fl \in {x \in dir : x.ext = "jpg"}}

----------------------------------------------------------------------------
(* Spec: the target sequence of __main__ and its batches *)

\* __main__: the run calls (alternating is_movie) and then run_trakt.
Targets ==
    [i \in 1..NumRunCalls |-> [kind |-> "run", is_movie |-> (i % 2 = 1)]]
    \o <<[kind |-> "trakt", is_movie |-> FALSE]>>

Ids == 1..MaxId

\* An item of the discovery result: a record that may lack its 'id'.
RunItems == [has_id : BOOLEAN, id : Ids]

\* An entry of the watchlist: 'type' may be missing or name another kind, and
\* the nested tmdb id may be missing.
TraktItems == [type : {"movie", "show", "episode", "absent"}, has_tmdb : BOOLEAN, id : Ids]

NoItem == [has_details |-> FALSE, backdrop |-> FALSE, outcome |-> "none", composed |-> FALSE]

Visited(has_details, d, r) ==
    [has_details |-> has_details, backdrop |-> has_details /\ d.backdrop,
     outcome |-> r.outcome, composed |-> r.composed]

IdleCrop ==
    /\ cpc = "off" /\ image = <<0, 0>> /\ box = <<0, 0, 0, 0>> /\ axis = "none"
    /\ canvas = <<0, 0>>
IdleLayout ==
    /\ lpc = "off" /\ title = "latin" /\ logo = [avail |-> FALSE, ok |-> FALSE, w |-> 1, h |-> 1]
    /\ target_font_size = 0 /\ line_data = <<>> /\ current_y = 0 /\ drawn = <<>>
    /\ tried = <<>> /\ rejected = {} /\ logo_h = -1 /\ info_y = -1
IdleImage == imgIn = <<>> /\ imgOut = [outcome |-> "off"]
IdleBatch ==
    /\ pc = "off" /\ tgt = 0 /\ remaining = 0 /\ nSelected = 0 /\ attempted = 0
    /\ files = {} /\ manifest = {} /\ written = {} /\ last = NoItem /\ lastBatch = "none"
    /\ nFailed = 0

\* MediaGenerator.__init__: BACKGROUND_DIR is removed and recreated empty.
\* api.json is not touched; the model starts from a checkout without one.
Init ==
    /\ pc = "idle" /\ tgt = 1
    /\ remaining = 0 /\ nSelected = 0 /\ attempted = 0
    /\ files = {} /\ manifest = {} /\ written = {}
    /\ last = NoItem /\ lastBatch = "none" /\ nFailed = 0
    /\ IdleImage /\ IdleLayout /\ IdleCrop

AtTarget(kind) == pc = "idle" /\ tgt <= Len(Targets) /\ Targets[tgt].kind = kind
InLoop(kind) == pc = "items" /\ Targets[tgt].kind = kind

\* random.sample(results, min(len(results), limit)): any number of items up to
\* the limit, in any order; the items themselves are drawn when visited.
Selected(n) ==
    /\ pc' = "items" /\ remaining' = n /\ nSelected' = n /\ attempted' = 0
    /\ written' = {} /\ last' = NoItem /\ lastBatch' = "running"
    /\ UNCHANGED <<tgt, files, manifest, nFailed>>

QueryFailed_Propagates ==
    /\ pc' = "crashed" /\ lastBatch' = "fetch_failed" /\ nFailed' = nFailed + 1
    /\ remaining' = 0 /\ nSelected' = 0 /\ attempted' = 0 /\ written' = {} /\ last' = NoItem
    /\ UNCHANGED <<tgt, files, manifest>>

\* The discovery query raised: the outer except of run (272-273) or of
\* run_trakt (313-314) prints and the method returns to __main__.
QueryFailed ==
    /\ pc' = "idle" /\ tgt' = tgt + 1 /\ lastBatch' = "fetch_failed" /\ nFailed' = nFailed + 1
    /\ remaining' = 0 /\ nSelected' = 0 /\ attempted' = 0 /\ written' = {} /\ last' = NoItem
    /\ UNCHANGED <<files, manifest>>

\* An exception left the item loop of run_trakt (lines 296, 300 are outside the
\* inner try): the outer except prints and generate_api_json is not reached.
BatchAborted ==
    /\ pc' = "idle" /\ tgt' = tgt + 1 /\ lastBatch' = "aborted"
    /\ attempted' = attempted + 1 /\ remaining' = remaining - 1
    /\ last' = [NoItem EXCEPT !.outcome = "abort"]
    /\ UNCHANGED <<nSelected, files, manifest, written, nFailed>>

\* One call of generate_image inside its per-item try/except.
RenderItem(has_id, id, d, is_movie) ==
    LET r == generate_image(has_id, d, is_movie)
        saved == IF r.outcome = "saved" THEN {OutputFile(is_movie, id)} ELSE {}
    IN  /\ files' = files \cup saved
        /\ written' = written \cup saved
        /\ last' = Visited(has_id /\ d.fetch_ok, d, r)
        /\ attempted' = attempted + 1 /\ remaining' = remaining - 1
        /\ UNCHANGED <<pc, tgt, nSelected, manifest, lastBatch, nFailed>>

\* run, lines 247-263: the result pages are fetched and the items sampled.
RunStart ==
    /\ AtTarget("run")
    /\ \E n \in 0..MaxItems : Selected(n)
    /\ UNCHANGED <<imageVars, layoutVars, cropVars>>

\* run, lines 254-255 raise (request, JSON decoding, a malformed page).
RunQueryFails ==
    /\ AtTarget("run")
    /\ QueryFailed
    /\ UNCHANGED <<imageVars, layoutVars, cropVars>>

\* run, lines 265-269: one iteration of the item loop.
RunItem ==
    /\ InLoop("run") /\ remaining > 0
    /\ \E item \in RunItems, d \in UniformDetails :
           RenderItem(item.has_id, item.id, d, Targets[tgt].is_movie)
    /\ UNCHANGED <<imageVars, layoutVars, cropVars>>

\* run_trakt, lines 283-293 with status 200.
TraktStart ==
    /\ AtTarget("trakt")
    /\ \E n \in 0..MaxItems : Selected(n)
    /\ UNCHANGED <<imageVars, layoutVars, cropVars>>

\* run_trakt, lines 309-312: another status; nothing is rendered and the
\* manifest is regenerated.
TraktBadStatus ==
    /\ AtTarget("trakt")
    /\ pc' = "idle" /\ tgt' = tgt + 1 /\ lastBatch' = "completed"
    /\ remaining' = 0 /\ nSelected' = 0 /\ attempted' = 0 /\ written' = {} /\ last' = NoItem
    /\ manifest' = generate_api_json(files)
    /\ UNCHANGED <<files, nFailed>>
    /\ UNCHANGED <<imageVars, layoutVars, cropVars>>

\* run_trakt, lines 283-285 raise.
TraktQueryFails ==
    /\ AtTarget("trakt")
    /\ QueryFailed
    /\ UNCHANGED <<imageVars, layoutVars, cropVars>>

\* run_trakt, lines 295-308: one iteration of the item loop.
TraktItem ==
    /\ InLoop("trakt") /\ remaining > 0
    /\ \E item \in TraktItems :
         IF item.type = "absent" THEN BatchAborted                 \* line 296
         ELSE IF item.type = "episode" THEN                         \* line 298
              /\ attempted' = attempted + 1 /\ remaining' = remaining - 1
              /\ last' = [NoItem EXCEPT !.outcome = "continue"]
              /\ UNCHANGED <<pc, tgt, nSelected, files, manifest, written, lastBatch, nFailed>>
         ELSE IF ~item.has_tmdb THEN BatchAborted                   \* line 300
         ELSE \E d \in UniformDetails :
                 RenderItem(TRUE, item.id, d, item.type = "movie")
    /\ UNCHANGED <<imageVars, layoutVars, cropVars>>

\* Lines 271 and 312: the loop is over, the manifest is regenerated.
FinishBatch ==
    /\ pc = "items" /\ remaining = 0
    /\ manifest' = generate_api_json(files)
    /\ pc' = "idle" /\ tgt' = tgt + 1 /\ lastBatch' = "completed"
    /\ UNCHANGED <<remaining, nSelected, attempted, files, written, last, nFailed>>
    /\ UNCHANGED <<imageVars, layoutVars, cropVars>>

Next ==
    \/ RunStart
    \/ RunQueryFails
    \/ RunItem
    \/ TraktStart
    \/ TraktBadStatus
    \/ TraktQueryFails
    \/ TraktItem
    \/ FinishBatch

Spec == Init /\ [][Next]_vars

----------------------------------------------------------------------------
(* Claims checked under Spec *)

\* C1: after every batch the manifest holds exactly one record per .jpg file
\* present in the output directory and no record of an absent file.
C1_ManifestMatchesDirectory ==
    pc = "idle" =>
        /\ \A fl \in files : fl.ext = "jpg" => ApiRecord(fl) \in manifest
        /\ \A r \in manifest : \E fl \in files : fl.ext = "jpg" /\ r = ApiRecord(fl)

\* C2: a failure at one selected item is caught at that item, so when a batch
\* whose query succeeded is over, every selected item has been attempted.
C2_EverySelectedItemAttempted ==
    (pc = "idle" /\ lastBatch \in {"completed", "aborted"}) => attempted = nSelected

\* C3: visiting an item whose detail record has no backdrop writes no file,
\* does not reach composition, leaves the manifest input (the directory)
\* without an entry from it, and the item loop goes on with the next item.
C3_NoBackdropSkipped ==
    [][(attempted' = attempted + 1 /\ last'.has_details /\ ~last'.backdrop) =>
          /\ ~last'.composed
          /\ last'.outcome \in {"return", "raise"}
          /\ files' = files /\ written' = written /\ manifest' = manifest
          /\ pc' = "items" /\ remaining' = remaining - 1]_vars

C3_Witness ==
    /\ last.has_details /\ ~last.backdrop /\ last.outcome = "return"
    /\ pc = "items" /\ attempted = 1 /\ remaining > 0

\* C8: a discovery query that raises ends only its own batch: nothing is
\* rendered or written, the exception stays inside run / run_trakt, and
\* __main__ goes on to the next target.
C8_QueryFailureIsolated ==
    /\ [](pc # "crashed")
    /\ [][nFailed' = nFailed + 1 =>
             /\ files' = files /\ manifest' = manifest /\ written' = {}
             /\ pc' = "idle" /\ tgt' = tgt + 1]_vars

C8_Witness ==
    /\ nFailed >= 1 /\ lastBatch = "completed" /\ written # {}

----------------------------------------------------------------------------
(* SpecImage: one call of generate_image *)

ImageInputs == [has_id : {TRUE}, is_movie : BOOLEAN, d : Details]

InitImage ==
    /\ imgIn = <<>> /\ imgOut = [outcome |-> "init"]
    /\ IdleBatch /\ IdleLayout /\ IdleCrop

\* generate_image(item, is_movie, ...) on one item and its detail record.
GenerateImage ==
    /\ imgOut.outcome = "init"
    /\ \E in \in ImageInputs :
         LET r == generate_image(in.has_id, in.d, in.is_movie) IN
         /\ imgIn' = in
         /\ imgOut' = IF in.d.fetch_ok /\ ~NormalizeRaises(in.d, in.is_movie)
                      THEN [outcome |-> r.outcome, info |-> Normalize(in.d, in.is_movie)]
                      ELSE [outcome |-> r.outcome]
    /\ UNCHANGED <<batchVars, layoutVars, cropVars>>

NextImage == GenerateImage

SpecImage == InitImage /\ [][NextImage]_vars

\* C6: a detail record with a backdrop is rendered to a file whatever the
\* state (absent, or present with null) of its optional keys; nothing else
\* being wrong with the item (details fetched, backdrop decodes, title usable).
C6_OptionalFieldsNeverSkip ==
    (/\ imgOut.outcome # "init"
     /\ imgIn.d.fetch_ok /\ imgIn.d.backdrop /\ imgIn.d.decode_ok
     /\ ~TitleBlockRaises(imgIn.d))
    => imgOut.outcome = "saved"

----------------------------------------------------------------------------
(* SpecLayout: generate_image lines 150-193, the title block and info line *)

\* Wordmarks: none (get_media_logo returned None), one that fails to download
\* or decode, or a decoded one of the given size.
LogoWidths == {1, 600, 3072, 4000}
LogoHeights == {1, 100, 480, 481, 500, 700}
LogoInputs ==
    {[avail |-> FALSE, ok |-> FALSE, w |-> 1, h |-> 1],
     [avail |-> TRUE, ok |-> FALSE, w |-> 1, h |-> 1]}
    \cup [avail : {TRUE}, ok : {TRUE}, w : LogoWidths, h : LogoHeights]

\* int(x * ratio) for the exact value num/den of the product. Evaluated in
\* double precision the product of x and a rounded quotient can fall just
\* below an exact integer, so an exact integer q may come out as q - 1.
ScaledSet(num, den) ==
    LET q == num \div den IN
    IF num % den = 0 THEN {q - 1, q} ELSE {q}

\* Line 158: ratio = min(MAX_TEXT_W / w, MAX_TITLE_H / h);
\* line 159: the sizes int(w * ratio) and int(h * ratio) resize may be given.
ScaledLogo(w, h) ==
    IF MAX_TEXT_W * h <= MAX_TITLE_H * w
    THEN ScaledSet(MAX_TEXT_W, 1) \X ScaledSet(h * MAX_TEXT_W, w)
    ELSE ScaledSet(w * MAX_TITLE_H, h) \X ScaledSet(MAX_TITLE_H, 1)

\* The measured lines of one wrap: (w, h) of each line's bounding box.
LineWidths == {MAX_TEXT_W, MAX_TEXT_W + 1}
LineHeights == {230, 231}
Lines == LineWidths \X LineHeights
LineData == UNION {[1..n -> Lines] : n \in 1..MaxLines}

RECURSIVE TotalH(_)
\* Lines 172-176: total_h accumulates h + 20 per line.
TotalH(ld) == IF ld = <<>> THEN 0 ELSE ld[1][2] + LINE_GAP + TotalH(Tail(ld))

\* max([d[1] for d in line_data])
MaxW(ld) == CHOOSE m \in {ld[i][1] : i \in 1..Len(ld)} : \A i \in 1..Len(ld) : ld[i][1] <= m

Fits_HeightIgnored(ld) == MaxW(ld) <= MAX_TEXT_W

\* Line 178: the fit test.
Fits(ld) == MaxW(ld) <= MAX_TEXT_W /\ TotalH(ld) <= MAX_TITLE_H

\* Line 167: the starting size.
StartSize(t) == IF t = "cjk" THEN START_CJK ELSE START_LATIN

LoopContinues_LowFloor(sz) == sz > 0

\* Line 168: the loop condition.
LoopContinues(sz) == sz > FLOOR_SIZE

\* Line 185.
NextSize(sz) == sz - SIZE_STEP

ClampY_NoClamp(y) == y

\* Line 187.
ClampY(y) == Max(y, INITIAL_Y + MAX_TITLE_H + CLAMP_GAP)

InitLayout ==
    /\ lpc = "start"
    /\ title \in TitleKinds
    /\ logo \in LogoInputs
    /\ target_font_size = 0 /\ line_data = <<>>
    /\ current_y = INITIAL_Y                                       \* line 150
    /\ drawn = <<>> /\ tried = <<>> /\ rejected = {}
    /\ logo_h = -1 /\ info_y = -1
    /\ IdleBatch /\ IdleImage /\ IdleCrop

\* Lines 153-154: no wordmark, the text path is taken.
NoLogo ==
    /\ lpc = "start" /\ ~logo.avail
    /\ lpc' = "text"
    /\ UNCHANGED <<title, logo, target_font_size, line_data, current_y, drawn,
                   tried, rejected, logo_h, info_y>>
    /\ UNCHANGED <<batchVars, imageVars, cropVars>>

\* Lines 155-162: the wordmark is scaled and composited, the cursor advanced;
\* any exception (download, decode, a scaled side below 1 in resize) is
\* swallowed and logo_path reset, which sends the item down the text path.
LogoPath ==
    /\ lpc = "start" /\ logo.avail
    /\ \/ /\ ~logo.ok
          /\ lpc' = "text"
          /\ UNCHANGED <<current_y, logo_h>>
       \/ /\ logo.ok
          /\ \E sz \in ScaledLogo(logo.w, logo.h) :
                IF sz[1] < 1 \/ sz[2] < 1
                THEN lpc' = "text" /\ UNCHANGED <<current_y, logo_h>>
                ELSE /\ logo_h' = sz[2]
                     /\ current_y' = current_y + sz[2] + LOGO_GAP   \* line 161
                     /\ lpc' = "clamp"
    /\ UNCHANGED <<title, logo, target_font_size, line_data, drawn, tried,
                   rejected, info_y>>
    /\ UNCHANGED <<batchVars, imageVars, cropVars>>

\* Lines 164-167: is_cjk iterates over the title (None raises).
TextStart ==
    /\ lpc = "text"
    /\ IF title = "null"
       THEN lpc' = "raised" /\ UNCHANGED target_font_size
       ELSE lpc' = "loop" /\ target_font_size' = StartSize(title)
    /\ UNCHANGED <<title, logo, line_data, current_y, drawn, tried, rejected,
                   logo_h, info_y>>
    /\ UNCHANGED <<batchVars, imageVars, cropVars>>

\* Lines 168-185: one iteration of the shrink loop. The wrapped lines of a
\* non-empty title at this size measure to some line_data; an empty title
\* wraps to no line and max() raises.
Measure ==
    /\ lpc = "loop" /\ LoopContinues(target_font_size)
    /\ IF title = "empty"
       THEN /\ lpc' = "raised"
            /\ UNCHANGED <<target_font_size, line_data, current_y, drawn, tried, rejected>>
       ELSE \E ld \in LineData :
            /\ line_data' = ld
            /\ tried' = Append(tried, target_font_size)
            /\ IF Fits(ld)
               THEN /\ drawn' = Append(drawn, target_font_size)
                    /\ current_y' = current_y + TotalH(ld)          \* line 183
                    /\ lpc' = "clamp"                               \* break
                    /\ UNCHANGED <<target_font_size, rejected>>
               ELSE /\ target_font_size' = NextSize(target_font_size)
                    /\ rejected' = rejected \cup {target_font_size}
                    /\ UNCHANGED <<lpc, drawn, current_y>>
    /\ UNCHANGED <<title, logo, logo_h, info_y>>
    /\ UNCHANGED <<batchVars, imageVars, cropVars>>

\* Line 168 false: the loop ends without a break.
LoopExit ==
    /\ lpc = "loop" /\ ~LoopContinues(target_font_size)
    /\ lpc' = "clamp"
    /\ UNCHANGED <<title, logo, target_font_size, line_data, current_y, drawn,
                   tried, rejected, logo_h, info_y>>
    /\ UNCHANGED <<batchVars, imageVars, cropVars>>

\* Lines 187-193: the cursor is clamped, the info line drawn at it, and the
\* cursor advanced.
InfoLine ==
    /\ lpc = "clamp"
    /\ info_y' = ClampY(current_y)
    /\ current_y' = ClampY(current_y) + INFO_ADVANCE
    /\ lpc' = "done"
    /\ UNCHANGED <<title, logo, target_font_size, line_data, drawn, tried,
                   rejected, logo_h>>
    /\ UNCHANGED <<batchVars, imageVars, cropVars>>

NextLayout ==
    \/ NoLogo
    \/ LogoPath
    \/ TextStart
    \/ Measure
    \/ LoopExit
    \/ InfoLine

\* generate_image is straight-line code: a step that can be taken is taken.
SpecLayout == InitLayout /\ [][NextLayout]_vars /\ WF_vars(NextLayout)

----------------------------------------------------------------------------
(* Claims checked under SpecLayout *)

TextPathDone == lpc \in {"clamp", "done"} /\ logo_h < 0

\* The candidate sizes of the shrink search: start, start - 20, ... above 80.
Candidates(t) ==
    {sz \in (FLOOR_SIZE + 1)..StartSize(t) : (StartSize(t) - sz) % SIZE_STEP = 0}

\* C4: on the text path the title is drawn even when no candidate size fits
\* (at the smallest attempted size), so an image without a wordmark always
\* carries a text title.
C4_TitleAlwaysDrawn == TextPathDone => Len(drawn) >= 1

\* C5 as stated: the info line is always drawn at y = 480 + 500 + 20 = 1000.
C5_InfoLineAlwaysAt1000 == lpc = "done" => info_y = 1000

\* C5 amended: the info line is drawn at max(1000, 480 + wordmark height + 40):
\* exactly 1000 on the text path and for a wordmark scaled to at most 480
\* pixels, 480 + height + 40 (at most 1020) for a taller one.
C5_InfoLineAtLeast1000 ==
    lpc = "done" =>
        /\ info_y >= 1000 /\ info_y <= 1020
        /\ logo_h <= 480 => info_y = 1000
        /\ logo_h > 480 => info_y = 480 + logo_h + 40

C5_Witness == lpc = "done" /\ logo_h = 500 /\ info_y = 1020

\* C9: the shrink search terminates; the sizes tried are start, start - 20,
\* ... while above 80: at most 14 for a Latin title, at most 9 for a
\* wide-glyph title.
C9_SearchTerminates ==
    /\ <>(lpc \in {"done", "raised"})
    /\ [](/\ Len(tried) <= (IF title = "cjk" THEN 9 ELSE 14)
          /\ \A i \in 1..Len(tried) :
                tried[i] = StartSize(title) - 20 * (i - 1) /\ tried[i] > 80)

C9_Witness == lpc = "done" /\ title = "latin" /\ Len(tried) = 14 /\ tried[14] = 90

\* The fit test as the claim states it.
C10_WithinBudget(ld) ==
    /\ \A i \in 1..Len(ld) : ld[i][1] <= MAX_TEXT_W
    /\ TotalH(ld) <= MAX_TITLE_H

\* C10: the title is drawn once, at a size whose lines are within both
\* budgets, after every larger candidate was measured and found not to be;
\* a size is rejected only when its lines exceed a budget.
C10_DrawnAtLargestFit ==
    /\ [][drawn' # drawn =>
            /\ drawn = <<>> /\ drawn' = <<target_font_size>>
            /\ target_font_size \in Candidates(title)
            /\ C10_WithinBudget(line_data')
            /\ \A sz \in Candidates(title) : sz > target_font_size => sz \in rejected
            /\ lpc' # "loop"]_vars
    /\ [][rejected' # rejected =>
            /\ rejected' = rejected \cup {target_font_size}
            /\ ~C10_WithinBudget(line_data')]_vars

C10_Witness ==
    /\ lpc = "done" /\ title = "latin" /\ drawn = <<230>>
    /\ rejected = {350, 330, 310, 290, 270, 250}

----------------------------------------------------------------------------
(* SpecCrop: generate_image lines 124-132, the aspect-fill crop *)

\* Line 126: img_ratio > target_ratio, i.e. w / h > CANVAS_W / CANVAS_H.
WiderThanTarget(w, h) == w * CANVAS_H > CANVAS_W * h

\* Line 127: int(target_ratio * h); line 130: int(w / target_ratio). The
\* double-precision results equal the exact quotients below for every size
\* up to 3000 x 3000.
NewW(h) == (CANVAS_W * h) \div CANVAS_H
NewH(w) == (w * CANVAS_H) \div CANVAS_W

CropBox_FromOrigin(w, h) ==
    IF WiderThanTarget(w, h)
    THEN <<0, 0, NewW(h), h>>
    ELSE <<0, 0, w, NewH(w)>>

\* Lines 128 and 131: the box <<left, top, right, bottom>> given to crop.
CropBox(w, h) ==
    IF WiderThanTarget(w, h)
    THEN <<(w - NewW(h)) \div 2, 0, (w + NewW(h)) \div 2, h>>
    ELSE <<0, (h - NewH(w)) \div 2, w, (h + NewH(w)) \div 2>>

BoxW(b) == b[3] - b[1]
BoxH(b) == b[4] - b[2]
EmptyBox(b) == BoxW(b) < 1 \/ BoxH(b) < 1

InitCrop ==
    /\ cpc = "src"
    /\ image \in (1..MaxSrc) \X (1..MaxSrc)
    /\ box = <<0, 0, 0, 0>> /\ axis = "none" /\ canvas = <<0, 0>>
    /\ IdleBatch /\ IdleImage /\ IdleLayout

\* Lines 124-132: crop to the target ratio, then resize to the canvas. What
\* resize does with an empty region is the imaging library's business: it
\* either raises or returns an image of the requested size.
AspectFill ==
    /\ cpc = "src"
    /\ LET b == CropBox(image[1], image[2]) IN
       /\ box' = b
       /\ axis' = IF WiderThanTarget(image[1], image[2]) THEN "x" ELSE "y"
       /\ \/ cpc' = "done" /\ canvas' = <<CANVAS_W, CANVAS_H>>
          \/ EmptyBox(b) /\ cpc' = "raised" /\ canvas' = canvas
    /\ UNCHANGED image
    /\ UNCHANGED <<batchVars, imageVars, layoutVars>>

NextCrop == AspectFill

SpecCrop == InitCrop /\ [][NextCrop]_vars

\* Margins removed on each side of the image.
MarginLeft == box[1]
MarginRight == image[1] - box[3]
MarginTop == box[2]
MarginBottom == image[2] - box[4]

OneAxisCropped ==
    /\ axis = "x" => MarginTop = 0 /\ MarginBottom = 0
    /\ axis = "y" => MarginLeft = 0 /\ MarginRight = 0

\* C7 as stated: for every source size the result is the 3840x2160 canvas,
\* one axis is cropped, the two margins removed on it are equal, and the crop
\* region is never empty.
C7_SymmetricNonEmptyCrop ==
    cpc # "src" =>
        /\ cpc = "done" /\ canvas = <<CANVAS_W, CANVAS_H>>
        /\ OneAxisCropped
        /\ MarginLeft = MarginRight /\ MarginTop = MarginBottom
        /\ ~EmptyBox(box)

\* C7 amended: one axis is cropped and the margins removed on it differ by at
\* most one pixel (the right / bottom one is the larger when the excess is
\* odd); for a source at least 2 pixels wide the crop region is not empty and
\* the result is the 3840x2160 canvas; a source 1 pixel wide crops to an
\* empty region.
C7_NearSymmetricCrop ==
    cpc # "src" =>
        /\ OneAxisCropped
        /\ MarginLeft <= MarginRight /\ MarginRight <= MarginLeft + 1
        /\ MarginTop <= MarginBottom /\ MarginBottom <= MarginTop + 1
        /\ image[1] >= 2 => ~EmptyBox(box) /\ cpc = "done" /\ canvas = <<CANVAS_W, CANVAS_H>>
        /\ image[1] = 1 => EmptyBox(box)

C7_Witness ==
    /\ cpc = "done" /\ axis = "x" /\ MarginLeft > 0 /\ MarginRight = MarginLeft + 1
    /\ canvas = <<CANVAS_W, CANVAS_H>>

====
